---- MODULE Spec2Model ----
(***************************************************************************)
(* The resilient request layer of k-app-web: the ApiClient (token store,   *)
(* single-flight token refresh, 401 refresh-and-resend, retry loop,        *)
(* timeout signal) and the authApi login/logout wrappers built on it.      *)
(*                                                                         *)
(* JavaScript runs every continuation to completion: one action of this    *)
(* module is one task (a network answer, a timer, a call from the UI)      *)
(* together with all the promise continuations it makes runnable.          *)
(***************************************************************************)
EXTENDS Integers, Naturals, Sequences, FiniteSets, TLC

(* ---------------------------- bounds ----------------------------------- *)
MaxReqs == 2       \* request() calls of one run
MaxRetries == 1    \* largest `retries` a caller configures
MaxTokens == 2     \* credentials the server issues in one run
MaxCalls == 3      \* fetcher calls one useApi instance makes in one run
StaleTime == 2     \* the staleTime option of useApi, in clock units
HookRetries == 1   \* the retries option of useApi

(* ---------------------------- constants -------------------------------- *)
Null == 0          \* null / absent (token fields, storage entries, headers)
BearerNull == -1   \* the header `Bearer ${null}`

Reqs == 1..MaxReqs
Kinds == {"api", "login", "logout"}
\* request() calls made through the AuthProvider
AuthKinds == {"AuthProvider.login", "AuthProvider.logout", "refreshUser"}
LoginKinds == {"login", "AuthProvider.login"}
LogoutKinds == {"logout", "AuthProvider.logout"}
Resp == {"ok", "invalid", "s401", "s404", "s503", "neterr"}

VARIABLES
  token,          \* ApiClient.token
  refreshToken,   \* ApiClient.refreshToken
  localStorage,   \* the durable entries auth_token and refresh_token
  isRefreshing,   \* ApiClient.isRefreshing
  refreshPromise, \* ApiClient.refreshPromise: Null or the index of a refresh call
  refreshOps,     \* the POST /auth/refresh calls made, in order
  req,            \* the request() calls
  nextTok,        \* the next credential the server issues
  cleared,        \* access tokens that were stored when setTokens(null) ran
  loggedOut,      \* access tokens that were stored when authApi.logout() began
  loginTokens,    \* access tokens that authApi.login stored
  settled,        \* the request() calls that settled in the latest task
  rendered,       \* useApi: the component has rendered and run its effects
  enabled,        \* useApi: the enabled option of the latest render
  data,           \* useApi state: Null or the fetcher call whose value it is
  isLoading,      \* useApi state
  error,          \* useApi state: Null or the fetcher call that failed
  lastFetchTimeRef, \* useApi ref
  retryCountRef,  \* useApi ref
  mountedRef,     \* useApi ref
  calls,          \* useApi: the fetcher calls made, in order
  timers,         \* useApi: the retry timers armed by setTimeout
  now,            \* Date.now()
  inval,          \* useApi: fetcher calls made before the latest reset/refetch
  user,           \* AuthProvider state: Null or the user object
  authMounted     \* AuthProvider: the mount effect has run

clientVars == <<token, refreshToken, localStorage, isRefreshing,
                refreshPromise, refreshOps, req, nextTok, cleared, loggedOut,
                loginTokens, settled>>

hookVars == <<rendered, enabled, data, isLoading, error, lastFetchTimeRef,
              retryCountRef, mountedRef, calls, timers, now, inval>>

authVars == <<user, authMounted>>

vars == <<clientVars, hookVars, authVars>>

(* ---------------------------- errors ----------------------------------- *)
ApiError(code, status) == [code |-> code, status |-> status]
NoError == ApiError("NONE", Null)

(* ---------------------------- token store ------------------------------ *)
Store == [token |-> token, refreshToken |-> refreshToken, ls |-> localStorage]

EmptyStorage == [auth_token |-> Null, refresh_token |-> Null]

saveTokensToStorage(ls, tok, rt) ==
  [auth_token |-> tok,
   refresh_token |-> IF rt # Null THEN rt ELSE ls.refresh_token]

clearTokensFromStorage(ls) == EmptyStorage

\* mutant: a null token removes the durable entries and leaves the fields
setTokensKeepsFields(s, tok, rt) ==
  IF tok # Null
  THEN [token |-> tok, refreshToken |-> rt,
        ls |-> saveTokensToStorage(s.ls, tok, rt)]
  ELSE [s EXCEPT !.ls = clearTokensFromStorage(@)]

setTokens(s, tok, rt) ==
  [token |-> tok,
   refreshToken |-> rt,
   ls |-> IF tok # Null THEN saveTokensToStorage(s.ls, tok, rt)
                        ELSE clearTokensFromStorage(s.ls)]

loadTokensFromStorage(ls) ==
  [token |-> ls.auth_token, refreshToken |-> ls.refresh_token, ls |-> ls]

Commit(s) ==
  /\ token' = s.token
  /\ refreshToken' = s.refreshToken
  /\ localStorage' = s.ls

(* ---------------------------- headers ---------------------------------- *)
getAuthHeaders(tok) == IF tok # Null THEN tok ELSE Null

retryHeaders(tok) == IF tok # Null THEN tok ELSE BearerNull

(* ---------------------------- retry ------------------------------------ *)
\* mutant: the predicate lets every error be retried
shouldRetryAlways(e) == TRUE

\* mutant: client errors are retried like server errors
shouldRetryClientErrors(e) == e.status = Null \/ e.status >= 400

\* mutant: the failure of the 401 branch is retried as well
shouldRetryAuthFailed(e) ==
  e.status = Null \/ e.status >= 500 \/ e.code = "AUTH_FAILED"

shouldRetry(e) == e.status = Null \/ e.status >= 500

\* the delay option request() passes to retry(), in milliseconds
RetryDelay == 1000

\* RETRY_CONFIG.maxDelay, in milliseconds
RetryMaxDelay == 5000

\* the time the retry loop sleeps after attempt `attempt` failed (backoff
\* is left at its default, true)
currentDelay(delay, attempt) == delay * 2 ^ (attempt - 1)

\* TRUE when the retry loop rethrows the error of attempt `attempt`
retryThrows(attempt, maxAttempts, e) ==
  attempt = maxAttempts \/ ~shouldRetry(e)

\* request(): retry(makeRequest, ...) when retries > 0, else makeRequest()
requestThrows(r, e) ==
  IF r.retries > 0 THEN retryThrows(r.attempt, r.retries + 1, e) ELSE TRUE

IdleReq ==
  [pc |-> "idle", kind |-> "api", retries |-> 0, skipAuth |-> FALSE,
   hdr |-> Null, aborted |-> FALSE, attempt |-> 0, slept |-> 0,
   sends |-> 0, only503 |-> TRUE, sent |-> {},
   awaits |-> Null, resends |-> 0, retryAuth |-> Null,
   result |-> "pending", err |-> NoError,
   clearedBefore |-> {}, logoutBefore |-> {}]

Init ==
  /\ token = Null
  /\ refreshToken = Null
  /\ localStorage = EmptyStorage
  /\ isRefreshing = FALSE
  /\ refreshPromise = Null
  /\ refreshOps = <<>>
  /\ req = [r \in Reqs |-> IdleReq]
  /\ nextTok = 1
  /\ cleared = {}
  /\ loggedOut = {}
  /\ loginTokens = {}
  /\ settled = {}
  /\ rendered = FALSE
  /\ enabled = TRUE
  /\ data = Null
  /\ isLoading = FALSE
  /\ error = Null
  /\ lastFetchTimeRef = 0
  /\ retryCountRef = 0
  /\ mountedRef = TRUE
  /\ calls = <<>>
  /\ timers = {}
  /\ now = StaleTime + 1
  /\ inval = 0
  /\ user = Null
  /\ authMounted = FALSE

(* ---------------------------- request steps ---------------------------- *)
Active(q) == q.pc \notin {"idle", "done"}

\* request() settles: the caller keeps the outcome; the headers, the timer
\* and the loop counter of the call are dropped
Done(q, res, e) ==
  [IdleReq EXCEPT !.pc = "done", !.kind = q.kind, !.result = res, !.err = e]

\* makeRequest threw e: request() either rejects with it or sleeps before
\* the next attempt
AfterError(q, e) ==
  IF requestThrows(q, e) THEN Done(q, "error", e)
  ELSE [q EXCEPT !.pc = "sleeping",
                 !.slept = currentDelay(RetryDelay, q.attempt)]

TimeoutError == ApiError("TIMEOUT", Null)
AuthFailed == ApiError("AUTH_FAILED", 401)
HttpError(resp) ==
  ApiError("HTTP_ERROR",
           CASE resp = "s401" -> 401 [] resp = "s404" -> 404 [] OTHER -> 503)

\* makeRequest after the first fetch settled with resp, outside the 401
\* refresh branch
afterResponse(q, resp) ==
  CASE resp = "ok" -> Done(q, "ok", NoError)
    [] resp = "invalid" -> AfterError(q, ApiError("INVALID_RESPONSE", Null))
    [] resp = "neterr" -> AfterError(q, ApiError("NONE", Null))
    [] OTHER -> AfterError(q, HttpError(resp))

\* makeRequest after the resend settled with resp: every failure is caught
\* by the inner catch and rethrown as AUTH_FAILED
afterRetryResponse(q, resp) ==
  IF resp = "ok" THEN Done(q, "ok", NoError) ELSE AfterError(q, AuthFailed)

\* the condition of the 401 refresh branch
needsRefresh(q, resp, rt) == resp = "s401" /\ ~q.skipAuth /\ rt # Null

\* mutant: the in-flight check is missing, every 401 starts a refresh call
joinsRefreshNever == FALSE

\* refreshAccessToken joins the refresh in flight
joinsRefresh == isRefreshing /\ refreshPromise # Null

\* fetch(url, requestOptions) of one attempt: an aborted signal rejects at
\* once with AbortError, which makeRequest maps to TIMEOUT
attempt(q) ==
  IF q.aborted THEN AfterError(q, TimeoutError)
  ELSE [q EXCEPT !.pc = "inflight", !.sends = @ + 1, !.sent = @ \cup {q.hdr}]

\* mutant: the resend reuses the headers built when request() began
resendOldHeaders(q, tok) ==
  IF q.aborted THEN AfterError(q, AuthFailed)
  ELSE [q EXCEPT !.pc = "resent", !.sends = @ + 1, !.resends = @ + 1,
                 !.retryAuth = q.hdr, !.sent = @ \cup {q.hdr}]

\* mutant: the abort of one waiter cancels the resend of all who shared its
\* refresh
resendUnlessAnyAborted(q, tok) ==
  IF \E r \in Reqs : req[r].aborted /\ req[r].awaits = q.awaits
  THEN AfterError(q, AuthFailed)
  ELSE [q EXCEPT !.pc = "resent", !.sends = @ + 1, !.resends = @ + 1,
                 !.retryAuth = retryHeaders(tok),
                 !.sent = @ \cup {retryHeaders(tok)}]

\* makeRequest after the awaited refresh resolved: fetch with retryHeaders
resend(q, tok) ==
  IF q.aborted THEN AfterError(q, AuthFailed)
  ELSE [q EXCEPT !.pc = "resent", !.sends = @ + 1, !.resends = @ + 1,
                 !.retryAuth = retryHeaders(tok),
                 !.sent = @ \cup {retryHeaders(tok)}]

(* ---------------------------- authApi wrappers ------------------------- *)
Finishing(nq) == {r \in Reqs : req[r].pc # "done" /\ nq[r].pc = "done"}

\* what the call r had done when the task that settles it began: its retries
\* option, the sends it made, whether its timer had fired
Outcome(r) ==
  [r |-> r, retries |-> req[r].retries, sends |-> req[r].sends,
   aborted |-> req[r].aborted]

loginStores(nq) ==
  \E r \in Finishing(nq) : nq[r].kind \in LoginKinds /\ nq[r].result = "ok"

\* mutant: the store is cleared only when the logout call succeeded
logoutClearsOnSuccess(nq) ==
  \E r \in Finishing(nq) : nq[r].kind \in LogoutKinds /\ nq[r].result = "ok"

logoutClears(nq) == \E r \in Finishing(nq) : nq[r].kind \in LogoutKinds

\* authApi.login stores the token of the answer; authApi.logout clears the
\* store in its finally block
authApi(s, nq) ==
  IF loginStores(nq) THEN setTokens(s, nextTok, Null)
  ELSE IF logoutClears(nq) THEN setTokens(s, Null, Null)
  ELSE s

\* the continuations of the AuthProvider callbacks
providerLogin(nq) ==
  \E r \in Finishing(nq) :
    nq[r].kind = "AuthProvider.login" /\ nq[r].result = "ok"

providerLogout(nq) ==
  \E r \in Finishing(nq) : nq[r].kind = "AuthProvider.logout"

refreshUserSettles(nq, res) ==
  \E r \in Finishing(nq) : nq[r].kind = "refreshUser" /\ nq[r].result = res

\* refreshUser removes both durable entries when getCurrentUser fails
AuthProviderStore(s, nq) ==
  IF refreshUserSettles(nq, "error") /\ ~loginStores(nq)
  THEN [s EXCEPT !.ls = EmptyStorage] ELSE s

\* setUser in login, logout and refreshUser
AuthProviderUser(nq) ==
  CASE providerLogin(nq) -> 1
    [] providerLogout(nq) -> Null
    [] refreshUserSettles(nq, "ok") -> 1
    [] refreshUserSettles(nq, "error") -> Null
    [] OTHER -> user

\* the end of a task: s is the store and nq the requests after the client's
\* own code ran, minted the credentials the server issued to the client
Settle(s, nq, minted) ==
  /\ loginStores(nq) => nextTok + minted <= MaxTokens
  /\ Commit(AuthProviderStore(authApi(s, nq), nq))
  /\ user' = AuthProviderUser(nq)
  /\ authMounted' = authMounted
  /\ req' = nq
  /\ nextTok' = nextTok + minted + (IF loginStores(nq) THEN 1 ELSE 0)
  /\ cleared' = IF ~loginStores(nq) /\ logoutClears(nq) /\ s.token # Null
                THEN cleared \cup {s.token} ELSE cleared
  /\ loginTokens' = IF loginStores(nq) THEN loginTokens \cup {nextTok}
                    ELSE loginTokens
  /\ settled' = {Outcome(r) : r \in Finishing(nq)}

(* ---------------------------- actions ---------------------------------- *)
\* ApiClient.request up to its first fetch (called directly, by authApi.login
\* or by authApi.logout)
StartCall(r, kind, retries, skipAuth) ==
  /\ UNCHANGED hookVars
  /\ req[r].pc = "idle"
  /\ \A p \in Reqs : p < r => req[p].pc # "idle"
  /\ kind # "api" => retries = 0 /\ ~skipAuth
  /\ LET q == [IdleReq EXCEPT
                 !.kind = kind, !.retries = retries, !.skipAuth = skipAuth,
                 !.hdr = getAuthHeaders(IF skipAuth THEN Null ELSE token),
                 !.attempt = 1,
                 !.clearedBefore = cleared, !.logoutBefore = loggedOut]
     IN  req' = [req EXCEPT ![r] = attempt(q)]
  /\ loggedOut' = IF kind \in LogoutKinds /\ token # Null
                  THEN loggedOut \cup {token} ELSE loggedOut
  /\ settled' = {}
  /\ UNCHANGED <<token, refreshToken, localStorage, isRefreshing,
                 refreshPromise, refreshOps, nextTok, cleared, loginTokens>>

\* a call made by the application, by authApi or by the AuthProvider
\* callbacks login and logout
Start(r, kind, retries, skipAuth) ==
  /\ StartCall(r, kind, retries, skipAuth)
  /\ UNCHANGED authVars

\* the first fetch of an attempt settles
Respond(r, resp) ==
  /\ UNCHANGED hookVars
  /\ req[r].pc = "inflight"
  /\ LET q == [req[r] EXCEPT !.only503 = @ /\ resp = "s503"]
     IN  IF needsRefresh(q, resp, refreshToken)
         THEN /\ IF joinsRefresh
                 THEN /\ req' = [req EXCEPT ![r] =
                           [q EXCEPT !.pc = "awaitRefresh",
                                     !.awaits = refreshPromise]]
                      /\ UNCHANGED <<isRefreshing, refreshPromise, refreshOps>>
                 ELSE /\ isRefreshing' = TRUE
                      /\ refreshOps' = Append(refreshOps,
                           [state |-> "pending", tok |-> Null])
                      /\ refreshPromise' = Len(refreshOps) + 1
                      /\ req' = [req EXCEPT ![r] =
                           [q EXCEPT !.pc = "awaitRefresh",
                                     !.awaits = Len(refreshOps) + 1]]
              /\ settled' = {}
              /\ UNCHANGED <<token, refreshToken, localStorage, nextTok,
                             cleared, loginTokens, authVars>>
         ELSE /\ Settle(Store, [req EXCEPT ![r] = afterResponse(q, resp)], 0)
              /\ UNCHANGED <<isRefreshing, refreshPromise, refreshOps>>
  /\ UNCHANGED loggedOut

\* the resend made after a refresh settles
RespondResend(r, resp) ==
  /\ UNCHANGED hookVars
  /\ req[r].pc = "resent"
  /\ Settle(Store, [req EXCEPT ![r] = afterRetryResponse(req[r], resp)], 0)
  /\ UNCHANGED <<isRefreshing, refreshPromise, refreshOps, loggedOut>>

\* the timer of createTimeoutSignal fires: controller.abort()
TimeoutFires(r) ==
  /\ UNCHANGED hookVars
  /\ Active(req[r])
  /\ ~req[r].aborted
  /\ LET q == [req[r] EXCEPT !.aborted = TRUE,
                               !.only503 = @ /\ req[r].pc # "inflight"]
         nq == CASE q.pc = "inflight" -> AfterError(q, TimeoutError)
                 [] q.pc = "resent" -> AfterError(q, AuthFailed)
                 [] OTHER -> q
     IN  Settle(Store, [req EXCEPT ![r] = nq], 0)
  /\ UNCHANGED <<isRefreshing, refreshPromise, refreshOps, loggedOut>>

\* the sleep of the retry loop ends: the next attempt
WakeUp(r) ==
  /\ UNCHANGED hookVars
  /\ req[r].pc = "sleeping"
  /\ LET q == [req[r] EXCEPT !.attempt = @ + 1]
     IN  Settle(Store, [req EXCEPT ![r] = attempt(q)], 0)
  /\ UNCHANGED <<isRefreshing, refreshPromise, refreshOps, loggedOut>>

\* mutant: the slot still names the refresh that settled
refreshStaysRecorded(k) == [isRefreshing |-> TRUE, refreshPromise |-> k]

\* refreshAccessToken after `await this.refreshPromise` returned or threw:
\* the slot of refresh k is cleared
refreshSettled(k) == [isRefreshing |-> FALSE, refreshPromise |-> Null]

Waiters(k) == {r \in Reqs : req[r].pc = "awaitRefresh" /\ req[r].awaits = k}

\* POST /auth/refresh answers with a new token: performTokenRefresh stores
\* it, refreshAccessToken clears the slot, every waiter resends
RefreshSucceeds(k) ==
  /\ UNCHANGED hookVars
  /\ k \in 1..Len(refreshOps)
  /\ refreshOps[k].state = "pending"
  /\ nextTok <= MaxTokens
  /\ LET s == setTokens(Store, nextTok, refreshToken)
         nq == [r \in Reqs |->
                  IF r \in Waiters(k) THEN resend(req[r], s.token)
                  ELSE req[r]]
     IN  Settle(s, nq, 1)
  /\ refreshOps' = [refreshOps EXCEPT ![k].state = "ok", ![k].tok = nextTok]
  /\ isRefreshing' = refreshSettled(k).isRefreshing
  /\ refreshPromise' = refreshSettled(k).refreshPromise
  /\ UNCHANGED loggedOut

\* POST /auth/refresh fails (non-2xx, no token in the body, network error)
RefreshFails(k) ==
  /\ UNCHANGED hookVars
  /\ k \in 1..Len(refreshOps)
  /\ refreshOps[k].state = "pending"
  /\ LET s == [Store EXCEPT !.ls = clearTokensFromStorage(@)]
         nq == [r \in Reqs |->
                  IF r \in Waiters(k) THEN AfterError(req[r], AuthFailed)
                  ELSE req[r]]
     IN  Settle(s, nq, 0)
  /\ refreshOps' = [refreshOps EXCEPT ![k].state = "fail"]
  /\ isRefreshing' = refreshSettled(k).isRefreshing
  /\ refreshPromise' = refreshSettled(k).refreshPromise
  /\ UNCHANGED loggedOut

\* apiClient.setTokens called by the application with a credential the
\* server issued, with or without its refresh token, or with null
SetTokensCall(tok, rt) ==
  /\ UNCHANGED hookVars
  /\ tok # Null => nextTok <= MaxTokens
  /\ Commit(setTokens(Store, tok, rt))
  /\ nextTok' = IF tok # Null THEN nextTok + 1 ELSE nextTok
  /\ cleared' = IF tok = Null /\ token # Null
                THEN cleared \cup {token} ELSE cleared
  /\ settled' = {}
  /\ UNCHANGED <<isRefreshing, refreshPromise, refreshOps, req, loggedOut,
                 loginTokens, authVars>>

\* the page is loaded again: new ApiClient(baseURL)
Construct ==
  /\ UNCHANGED hookVars
  /\ \A r \in Reqs : ~Active(req[r])
  /\ \A k \in 1..Len(refreshOps) : refreshOps[k].state # "pending"
  /\ Commit(loadTokensFromStorage(localStorage))
  /\ isRefreshing' = FALSE
  /\ refreshPromise' = Null
  /\ settled' = {}
  /\ UNCHANGED <<refreshOps, req, nextTok, cleared, loggedOut, loginTokens,
                 authVars>>

(* ---------------------------- AuthProvider ----------------------------- *)
\* refreshUser(): without a durable access token the user is cleared, else
\* authApi.getCurrentUser() is called
refreshUser(r) ==
  IF localStorage.auth_token = Null
  THEN /\ user' = Null
       /\ settled' = {}
       /\ UNCHANGED <<token, refreshToken, localStorage, isRefreshing,
                      refreshPromise, refreshOps, req, nextTok, cleared,
                      loggedOut, loginTokens, hookVars>>
  ELSE /\ StartCall(r, "refreshUser", 0, FALSE)
       /\ UNCHANGED user

\* the mount effect of the AuthProvider
AuthMount(r) ==
  /\ ~authMounted
  /\ authMounted' = TRUE
  /\ refreshUser(r)

\* the 15-minute interval, armed while isAuthenticated
IntervalFires(r) ==
  /\ authMounted
  /\ user # Null
  /\ authMounted' = authMounted
  /\ refreshUser(r)

\* the caller drops a settled call
Forget(r) ==
  /\ req[r].pc = "done"
  /\ req' = [req EXCEPT ![r] = IdleReq]
  /\ settled' = {}
  /\ UNCHANGED <<token, refreshToken, localStorage, isRefreshing,
                 refreshPromise, refreshOps, nextTok, cleared, loggedOut,
                 loginTokens, hookVars, authVars>>

(* ---------------------------- useApi ----------------------------------- *)
\* One instance of the useApi hook with its defaults (refetchOnMount,
\* initialData null), refetchOnWindowFocus on and a fetcher whose identity is
\* stable. The value a fetcher call yields is named by the index of the
\* call.
MaxTime == 2 * StaleTime + 2

Hook ==
  [data |-> data, isLoading |-> isLoading, error |-> error,
   lastFetchTimeRef |-> lastFetchTimeRef, retryCountRef |-> retryCountRef,
   calls |-> calls, timers |-> timers]

isStale(h) == now - h.lastFetchTimeRef > StaleTime

\* fetchData(force) of the closure that captured the data value d and the
\* enabled option en
fetchData(h, force, d, en) ==
  IF ~en \/ (~force /\ ~isStale(h) /\ d # Null) THEN h
  ELSE [h EXCEPT !.isLoading = TRUE, !.error = Null,
                 !.calls = Append(@, [state |-> "pending", force |-> force,
                                      d |-> d, en |-> en])]

\* the mount effect, which runs again after a render that changed data
mountEffect(h, before) ==
  IF h.data # before THEN fetchData(h, FALSE, h.data, enabled) ELSE h

\* mutant: continuations run whether or not the component is mounted
ignoreMounted(h, c) == h

\* the mountedRef.current checks: h when the component is mounted, else c
whileMounted(h, c) == IF mountedRef THEN h ELSE c

CommitHook(h) ==
  /\ Len(h.calls) <= MaxCalls
  /\ data' = h.data
  /\ isLoading' = h.isLoading
  /\ error' = h.error
  /\ lastFetchTimeRef' = h.lastFetchTimeRef
  /\ retryCountRef' = h.retryCountRef
  /\ calls' = h.calls
  /\ timers' = h.timers
  /\ enabled' = enabled

\* the first render: the mount effect calls fetchData()
Mount ==
  /\ ~rendered
  /\ rendered' = TRUE
  /\ CommitHook(fetchData(Hook, FALSE, data, enabled))
  /\ UNCHANGED <<mountedRef, now, inval, clientVars, authVars>>

\* handleFocus of the window focus effect
handleFocus(h) ==
  IF isStale(h) THEN fetchData(h, FALSE, h.data, enabled) ELSE h

\* the window gets the focus
Focus ==
  /\ rendered /\ mountedRef
  /\ CommitHook(handleFocus(Hook))
  /\ UNCHANGED <<rendered, mountedRef, now, inval, clientVars, authVars>>

\* refetch()
Refetch ==
  /\ rendered /\ mountedRef
  /\ CommitHook(fetchData(Hook, TRUE, data, enabled))
  /\ inval' = Len(calls)
  /\ UNCHANGED <<rendered, mountedRef, now, clientVars, authVars>>

\* reset(), then the render it causes
Reset ==
  /\ rendered /\ mountedRef
  /\ LET h == [Hook EXCEPT !.data = Null, !.error = Null,
                           !.isLoading = FALSE, !.lastFetchTimeRef = 0,
                           !.retryCountRef = 0]
     IN  CommitHook(mountEffect(h, data))
  /\ inval' = Len(calls)
  /\ UNCHANGED <<rendered, mountedRef, now, clientVars, authVars>>

\* the fetcher call k resolves with a successful response
FetcherResolves(k) ==
  /\ k \in 1..Len(calls)
  /\ calls[k].state = "pending"
  /\ LET c == [Hook EXCEPT !.calls[k].state = "settled"]
         h == [c EXCEPT !.data = k, !.lastFetchTimeRef = now,
                        !.retryCountRef = 0, !.isLoading = FALSE]
     IN  CommitHook(whileMounted(mountEffect(h, data), c))
  /\ UNCHANGED <<rendered, mountedRef, now, inval, clientVars, authVars>>

\* the fetcher call k rejects, or resolves with an unsuccessful response
FetcherRejects(k) ==
  /\ k \in 1..Len(calls)
  /\ calls[k].state = "pending"
  /\ LET c == [Hook EXCEPT !.calls[k].state = "settled"]
         again == retryCountRef < HookRetries
         h == [c EXCEPT !.error = k, !.isLoading = FALSE,
                        !.retryCountRef = IF again THEN @ + 1 ELSE @,
                        !.timers = IF again
                                   THEN @ \cup {[call |-> k,
                                                 force |-> calls[k].force,
                                                 d |-> calls[k].d,
                                                 en |-> calls[k].en]}
                                   ELSE @]
     IN  CommitHook(whileMounted(h, c))
  /\ UNCHANGED <<rendered, mountedRef, now, inval, clientVars, authVars>>

\* a retry timer fires: fetchData(force) of the closure that armed it
RetryTimerFires(t) ==
  /\ t \in timers
  /\ LET h == [Hook EXCEPT !.timers = @ \ {t}]
     IN  CommitHook(whileMounted(fetchData(h, t.force, t.d, t.en), h))
  /\ UNCHANGED <<rendered, mountedRef, now, inval, clientVars, authVars>>

\* the component unmounts
Unmount ==
  /\ rendered /\ mountedRef
  /\ mountedRef' = FALSE
  /\ UNCHANGED <<rendered, enabled, data, isLoading, error, lastFetchTimeRef,
                 retryCountRef, calls, timers, now, inval, clientVars,
                 authVars>>

\* the clock advances
Tick ==
  /\ now < MaxTime
  /\ now' = now + 1
  /\ UNCHANGED <<rendered, enabled, data, isLoading, error, lastFetchTimeRef,
                 retryCountRef, mountedRef, calls, timers, inval, clientVars,
                 authVars>>

NextUseApi ==
  \/ Mount
  \/ Focus
  \/ Refetch
  \/ Reset
  \/ \E k \in 1..MaxCalls : FetcherResolves(k)
  \/ \E k \in 1..MaxCalls : FetcherRejects(k)
  \/ \E t \in timers : RetryTimerFires(t)
  \/ Unmount
  \/ Tick

SpecUseApi == Init /\ [][NextUseApi]_vars

\* the parent renders the hook with the enabled option e: before the mount
\* this is the option of the first render; afterwards fetchData is a new
\* closure and the mount effect runs again
Render(e) ==
  /\ e # enabled
  /\ mountedRef
  /\ enabled' = e
  /\ LET h == IF rendered THEN fetchData(Hook, FALSE, data, e) ELSE Hook
     IN  /\ Len(h.calls) <= MaxCalls
         /\ data' = h.data
         /\ isLoading' = h.isLoading
         /\ error' = h.error
         /\ calls' = h.calls
  /\ UNCHANGED <<rendered, lastFetchTimeRef, retryCountRef, mountedRef, timers,
                 now, inval, clientVars, authVars>>

\* the hook under a parent that switches the enabled option
NextUseApiProps ==
  \/ NextUseApi
  \/ \E e \in BOOLEAN : Render(e)

SpecUseApiProps == Init /\ [][NextUseApiProps]_vars

\* every operation, every configuration, every answer; the specifications
\* that follow run the same actions in narrower environments
Next ==
  \/ \E r \in Reqs, kind \in Kinds, n \in 0..MaxRetries, sk \in BOOLEAN :
       Start(r, kind, n, sk)
  \/ \E r \in Reqs, resp \in Resp : Respond(r, resp)
  \/ \E r \in Reqs, resp \in Resp : RespondResend(r, resp)
  \/ \E r \in Reqs : TimeoutFires(r)
  \/ \E r \in Reqs : WakeUp(r)
  \/ \E k \in Reqs : RefreshSucceeds(k)
  \/ \E k \in Reqs : RefreshFails(k)
  \/ \E rt \in {Null, nextTok} : SetTokensCall(nextTok, rt)
  \/ SetTokensCall(Null, Null)
  \/ Construct
  \/ NextUseApi
  \/ \E e \in BOOLEAN : Render(e)
  \/ \E r \in Reqs : AuthMount(r)
  \/ \E r \in Reqs : IntervalFires(r)
  \/ \E r \in Reqs, kind \in {"AuthProvider.login", "AuthProvider.logout"} :
       Start(r, kind, 0, FALSE)
  \/ \E r \in Reqs : Forget(r)

Spec == Init /\ [][Next]_vars

\* the session as the AuthProvider drives it: the application stores a
\* token pair, the provider mounts, logs in and logs out
AuthResp == {"ok", "s401"}

NextAuth ==
  \/ SetTokensCall(nextTok, nextTok)
  \/ \E r \in Reqs : AuthMount(r)
  \/ \E r \in Reqs, kind \in {"AuthProvider.login", "AuthProvider.logout"} :
       Start(r, kind, 0, FALSE)
  \/ \E r \in Reqs, resp \in AuthResp : Respond(r, resp)
  \/ \E r \in Reqs, resp \in AuthResp : RespondResend(r, resp)
  \/ \E k \in Reqs : RefreshSucceeds(k)
  \/ \E k \in Reqs : RefreshFails(k)

SpecAuth == Init /\ [][NextAuth]_vars

\* the provider polling the user of a stored session; once a token refresh
\* has failed the user does nothing more: no token is stored and no call is
\* started by hand
NoRefreshFailed ==
  \A k \in 1..Len(refreshOps) : refreshOps[k].state # "fail"

NextPolling ==
  \/ NoRefreshFailed /\ SetTokensCall(nextTok, nextTok)
  \/ \E r \in Reqs : AuthMount(r)
  \/ \E r \in Reqs : IntervalFires(r)
  \/ \E r \in Reqs : NoRefreshFailed /\ Start(r, "api", 0, FALSE)
  \/ \E r \in Reqs, resp \in AuthResp : Respond(r, resp)
  \/ \E r \in Reqs, resp \in AuthResp : RespondResend(r, resp)
  \/ \E k \in 1..Len(refreshOps) : RefreshSucceeds(k)
  \/ \E k \in 1..Len(refreshOps) : RefreshFails(k)
  \/ \E r \in Reqs : Forget(r)

\* every call in flight is answered, the interval timer keeps firing and
\* settled calls are dropped
PollingFairness ==
  /\ \A r \in Reqs :
       /\ WF_vars(\E resp \in AuthResp : Respond(r, resp))
       /\ WF_vars(\E resp \in AuthResp : RespondResend(r, resp))
       /\ WF_vars(Forget(r))
  /\ WF_vars(\E k \in 1..Len(refreshOps) :
               RefreshSucceeds(k) \/ RefreshFails(k))
  /\ WF_vars(\E r \in Reqs : IntervalFires(r))

SpecPolling == Init /\ [][NextPolling]_vars /\ PollingFairness

\* the retry loop alone: no credentials are ever stored
NextRetry ==
  \/ \E r \in Reqs, n \in 0..MaxRetries : Start(r, "api", n, FALSE)
  \/ \E r \in Reqs, resp \in Resp : Respond(r, resp)
  \/ \E r \in Reqs : TimeoutFires(r)
  \/ \E r \in Reqs : WakeUp(r)

SpecRetry == Init /\ [][NextRetry]_vars

\* the retry loop of calls configured with up to MaxBackoffRetries retries
MaxBackoffRetries == 4

NextBackoff ==
  \/ \E r \in Reqs, n \in 0..MaxBackoffRetries : Start(r, "api", n, FALSE)
  \/ \E r \in Reqs, resp \in {"ok", "s503"} : Respond(r, resp)
  \/ \E r \in Reqs : WakeUp(r)

SpecBackoff == Init /\ [][NextBackoff]_vars

\* calls with retries beside calls that refresh the token, after one login
NextRetryRefresh ==
  \/ token = Null /\ nextTok = 1 /\ SetTokensCall(nextTok, nextTok)
  \/ \E r \in Reqs, n \in 0..MaxRetries :
       token # Null /\ Start(r, "api", n, FALSE)
  \/ \E r \in Reqs, resp \in {"ok", "s401", "s503"} : Respond(r, resp)
  \/ \E r \in Reqs, resp \in {"ok", "s401"} : RespondResend(r, resp)
  \/ \E r \in Reqs : WakeUp(r)
  \/ \E k \in 1..Len(refreshOps) : RefreshSucceeds(k)
  \/ \E k \in 1..Len(refreshOps) : RefreshFails(k)

SpecRetryRefresh == Init /\ [][NextRetryRefresh]_vars

\* concurrent requests around the token refresh
RefreshResp == {"ok", "s401", "s503"}

\* a request configured with retries runs while no other request is active
RunsAlone(r, n) ==
  \A p \in Reqs \ {r} : Active(req[p]) => n = 0 /\ req[p].retries = 0

NextRefresh ==
  \/ \E r \in Reqs, n \in 0..MaxRetries :
       RunsAlone(r, n) /\ Start(r, "api", n, FALSE)
  \/ \E r \in Reqs, resp \in RefreshResp : Respond(r, resp)
  \/ \E r \in Reqs, resp \in Resp : RespondResend(r, resp)
  \/ \E r \in Reqs : TimeoutFires(r)
  \/ \E r \in Reqs : WakeUp(r)
  \/ \E k \in Reqs : RefreshSucceeds(k)
  \/ \E k \in Reqs : RefreshFails(k)
  \/ \E rt \in {Null, nextTok} : SetTokensCall(nextTok, rt)
  \/ SetTokensCall(Null, Null)

SpecRefresh == Init /\ [][NextRefresh]_vars

\* the browser runs every timer that was armed: the timeout of each call
\* (setTimeout in createTimeoutSignal) and the sleep of the retry loop; no
\* answer of the server or of the refresh endpoint is ever owed
TimersFire ==
  \A r \in Reqs : WF_vars(TimeoutFires(r)) /\ WF_vars(WakeUp(r))

SpecRefreshTimers == SpecRefresh /\ TimersFire

\* the session: login, logout, reload and requests sent without retries
SessionResp == {"ok", "s401"}

NextSession ==
  \/ \E r \in Reqs, kind \in Kinds : Start(r, kind, 0, FALSE)
  \/ \E r \in Reqs, resp \in SessionResp : Respond(r, resp)
  \/ \E r \in Reqs, resp \in Resp : RespondResend(r, resp)
  \/ \E k \in Reqs : RefreshSucceeds(k)
  \/ \E k \in Reqs : RefreshFails(k)
  \/ \E rt \in {Null, nextTok} : SetTokensCall(nextTok, rt)
  \/ Construct

SpecSession == Init /\ [][NextSession]_vars

(* ======================================================================= *)
(* Claims                                                                  *)
(* ======================================================================= *)
PendingRefreshes ==
  {k \in 1..Len(refreshOps) : refreshOps[k].state = "pending"}

Finishes(r) == req[r].pc # "done" /\ req'[r].pc = "done"

\* C1: at every instant at most one POST /auth/refresh is in flight, and
\* every request that is waiting for a refresh waits for that one call, which
\* is the one recorded in refreshPromise.
C1_SingleFlightRefresh ==
  /\ Cardinality(PendingRefreshes) <= 1
  /\ \A r \in Reqs :
       req[r].pc = "awaitRefresh" =>
         /\ req[r].awaits \in PendingRefreshes
         /\ req[r].awaits = refreshPromise
         /\ isRefreshing

\* C1 witness: two requests wait for the refresh in flight.
C1_Witness ==
  \E r1, r2 \in Reqs :
    /\ r1 # r2
    /\ req[r1].pc = "awaitRefresh"
    /\ req[r2].pc = "awaitRefresh"
    /\ Cardinality(PendingRefreshes) = 1

\* r1 and r2 are two requests sent with the same access token
SameToken(r1, r2) ==
  r1 # r2 /\ req[r1].hdr # Null /\ req[r1].hdr = req[r2].hdr

\* C2 as stated: two requests sent with the same access token that each took
\* the 401 refresh branch use one and the same refresh call, whenever their
\* 401 answers arrive.
C2_OneRefreshInEveryOrder ==
  \A r1, r2 \in Reqs :
    (SameToken(r1, r2) /\ req[r1].awaits # Null /\ req[r2].awaits # Null)
      => req[r1].awaits = req[r2].awaits

\* C2 amended: requests sent with the same access token that are waiting for
\* a refresh at the same time wait for the same single call, and every
\* request resent after a refresh carries the token that this refresh
\* stored, so requests that shared the refresh are resent with the same new
\* token.
C2_OneRefreshWhileInFlight ==
  /\ \A r1, r2 \in Reqs :
       (SameToken(r1, r2) /\ req[r1].pc = "awaitRefresh"
                          /\ req[r2].pc = "awaitRefresh")
         => /\ req[r1].awaits = req[r2].awaits
            /\ PendingRefreshes = {req[r1].awaits}
  /\ \A r \in Reqs :
       req[r].pc = "resent" =>
         /\ refreshOps[req[r].awaits].state = "ok"
         /\ req[r].retryAuth = refreshOps[req[r].awaits].tok
         /\ req[r].retryAuth # req[r].hdr

\* C2 witness: two requests sent with the same token were both resent after
\* the one refresh they shared.
C2_Witness ==
  \E r1, r2 \in Reqs :
    /\ SameToken(r1, r2)
    /\ req[r1].pc = "resent"
    /\ req[r2].pc = "resent"
    /\ req[r1].awaits = req[r2].awaits
    /\ Len(refreshOps) = 1

\* C3: when a token refresh fails, the in-memory access token and refresh
\* token are absent afterwards and both durable entries are removed.
C3_RefreshFailureClearsStore ==
  [][(\E k \in 1..Len(refreshOps) :
        refreshOps[k].state = "pending" /\ refreshOps'[k].state = "fail")
     => (token' = Null /\ refreshToken' = Null
         /\ localStorage' = EmptyStorage)]_vars

\* C4: a request sent with credentials never surfaces a 401 received while a
\* refresh token is stored (it waits for a refresh instead); when the refresh
\* it waits for succeeds and its timer has not fired, it is resent in the
\* same step, once, carrying the token that refresh stored, and then
\* settles; when the refresh fails it rejects with AUTH_FAILED in the same
\* step, whatever retries remain, and a settled request never sends again.
C4_Resent ==
  \A r \in Reqs :
    req[r].pc = "resent" =>
      /\ req[r].resends = 1
      /\ refreshOps[req[r].awaits].state = "ok"
      /\ req[r].retryAuth = refreshOps[req[r].awaits].tok

C4_Step ==
  \A r \in Reqs :
    /\ (req[r].pc = "inflight" /\ ~req[r].skipAuth /\ refreshToken # Null
          /\ Finishes(r))
         => req'[r].err # HttpError("s401")
    /\ (req[r].pc = "awaitRefresh" /\ ~req[r].aborted
          /\ refreshOps'[req[r].awaits].state = "ok")
         => (req'[r].pc = "resent" /\ req'[r].sends = req[r].sends + 1
             /\ req'[r].retryAuth = token')
    /\ req[r].pc = "resent" => req'[r].pc \in {"resent", "done"}
    /\ (req[r].pc = "awaitRefresh"
          /\ refreshOps'[req[r].awaits].state = "fail")
         => (req'[r].pc = "done" /\ req'[r].err = AuthFailed)
    /\ req[r].pc = "done" => req'[r] = req[r]

C5_AuthFailedOnlyWhenRefreshFailed ==
  [][\A r \in Reqs :
       (Finishes(r) /\ req'[r].err.code = "AUTH_FAILED")
         => (req[r].pc = "awaitRefresh"
             /\ refreshOps'[req[r].awaits].state = "fail")]_vars

\* C6: a request sent with the token that authApi.login stored, while that
\* token is still the stored one, never settles with the 401 of the server.
C6_LoginSessionHides401 ==
  [][\A r \in Reqs :
       (req[r].kind = "api" /\ req[r].pc = "inflight"
          /\ req[r].hdr \in loginTokens /\ req[r].hdr = token
          /\ Finishes(r))
         => req'[r].err # HttpError("s401")]_vars

\* C7: the access token and the refresh token are both present or both
\* absent.
C7_BothOrNeither == (token = Null) <=> (refreshToken = Null)

\* the Authorization values the sends of request r carried
Carried(r) == req[r].sent \ {Null}

\* C8: no send of a request that began after setTokens(null) carries an
\* access token that was stored when setTokens(null) ran.
C8_NoOldTokenAfterClear ==
  \A r \in Reqs : Carried(r) \cap req[r].clearedBefore = {}

\* C8 witness: a request that began after a clear has been sent with the
\* token stored since.
C8_Witness ==
  \E r \in Reqs :
    /\ req[r].clearedBefore # {}
    /\ req[r].pc = "inflight"
    /\ Carried(r) = {token}

\* C9: no request other than the logout call, begun after authApi.logout()
\* began, is sent with an access token that was stored when logout began.
C9_NoOldTokenAfterLogoutBegins ==
  \A r \in Reqs :
    req[r].kind # "logout" => Carried(r) \cap req[r].logoutBefore = {}

\* every send of request r was answered 503, the one in flight included
Answered503(r) ==
  /\ req[r].only503
  /\ req[r].pc = "inflight" => req'[r].err = HttpError("s503")

\* C10: a request whose every send is answered 503 settles after exactly
\* retries + 1 sends, with the HTTP error.
C10_ExactlyMaxAttemptsSends ==
  [][\A r \in Reqs :
       (Finishes(r) /\ Answered503(r))
         => (req[r].sends = req[r].retries + 1
             /\ req'[r].err = HttpError("s503"))]_vars

\* the answers with a 4xx status
ClientErrors == {"s401", "s404"}

\* C11: a 4xx answer that the refresh branch does not take settles the call
\* in the same step with the HTTP error of that status, whatever retries
\* remain, so no send follows it; when it answers the first send the call
\* made exactly one send.
C11_ClientErrorNeverRetried ==
  [][\A r \in Reqs, resp \in ClientErrors :
       (Respond(r, resp) /\ ~needsRefresh(req[r], resp, refreshToken))
         => /\ Finishes(r)
            /\ req'[r].err = HttpError(resp)
            /\ req[r].attempt = 1 =>
                 \E o \in settled' : o.r = r /\ o.sends = 1]_vars

\* C11 witness: a call configured with retries settled with the 404 error
\* after one send.
C11_Witness ==
  \E o \in settled :
    /\ o.retries > 0
    /\ o.sends = 1
    /\ ~o.aborted
    /\ req[o.r].err = HttpError("s404")

\* C12: an answer whose payload fails validation settles the call in the
\* same step with INVALID_RESPONSE, whatever retries remain, so no send
\* follows it.
C12_InvalidResponseNeverRetried ==
  [][\A r \in Reqs :
       Respond(r, "invalid")
         => /\ Finishes(r)
            /\ req'[r].err = ApiError("INVALID_RESPONSE", Null)]_vars

\* C13: every call that was started settles, given only that its timers
\* fire.
C13_EveryCallSettles ==
  \A r \in Reqs : (req[r].pc # "idle") ~> (req[r].pc = "done")

\* the fetcher calls of the useApi instance that have not settled
PendingCalls == {k \in 1..Len(calls) : calls[k].state = "pending"}

\* C14: fetches issued through one useApi instance while a fetcher call is
\* pending make no further fetcher call: at most one is pending at a time.
C14_OneFetcherCallInFlight == Cardinality(PendingCalls) <= 1

\* data of a successful fetch is held by the mounted component
HoldsFetchedData ==
  rendered /\ mountedRef /\ data # Null /\ lastFetchTimeRef # 0

\* C15: a non-forced read (the window focus handler) at
\* lastFetchTime + staleTime - 1 makes no fetcher call, and one at
\* lastFetchTime + staleTime makes a fetcher call.
C15_StaleAtWindowEnd ==
  /\ (HoldsFetchedData /\ now = lastFetchTimeRef + StaleTime - 1)
       => handleFocus(Hook) = Hook
  /\ (HoldsFetchedData /\ now = lastFetchTimeRef + StaleTime)
       => Len(handleFocus(Hook).calls) = Len(calls) + 1

\* C16: after reset() or refetch() a fetcher call has been made or the next
\* non-forced fetch makes one, and a value stored later is the value of a
\* fetcher call made after the latest reset() or refetch().
C16_NoValueFromBeforeInvalidation ==
  [][/\ (Reset \/ Refetch)
          => (Len(calls') > Len(calls)
              \/ fetchData(Hook', FALSE, data', enabled') # Hook')
     /\ (data' # data /\ data' # Null) => data' > inval']_vars

\* the codes an error of the request layer can carry
ErrorCodes ==
  {"TIMEOUT", "HTTP_ERROR", "AUTH_FAILED", "INVALID_RESPONSE",
   "NETWORK_ERROR"}

\* C17: every error a call was rejected with carries one of the codes.
C17_EveryErrorHasCode ==
  \A r \in Reqs : req[r].result = "error" => req[r].err.code \in ErrorCodes

\* r waits for the refresh p waits for, and the timer of r has fired
AbortedBeside(r, p) ==
  /\ r # p
  /\ req[r].pc = "awaitRefresh" /\ req[r].aborted
  /\ req[p].pc = "awaitRefresh" /\ ~req[p].aborted
  /\ req[p].awaits = req[r].awaits

\* C18: the firing of one call's timer changes neither the refresh in flight
\* nor any other call; a call that shares its refresh with a call whose timer
\* has fired is resent with the new token when the refresh succeeds and is
\* rejected with AUTH_FAILED when it fails, and the answer to its resend
\* settles it.
C18_Step ==
  \A p \in Reqs :
  /\ (req[p].pc = "resent" /\ req'[p] # req[p] /\ RespondResend(p, "ok"))
       => (req'[p].pc = "done" /\ req'[p].result = "ok")
  /\ \A r \in Reqs \ {p} :
    /\ (Active(req[r]) /\ ~req[r].aborted /\ req'[r] # req[r]
          /\ TimeoutFires(r))
         => /\ req'[p] = req[p]
            /\ refreshOps' = refreshOps
            /\ refreshPromise' = refreshPromise
            /\ isRefreshing' = isRefreshing
    /\ (AbortedBeside(r, p) /\ refreshOps'[req[p].awaits].state = "ok")
         => (req'[p].pc = "resent" /\ req'[p].retryAuth = token')
    /\ (AbortedBeside(r, p) /\ refreshOps'[req[p].awaits].state = "fail")
         => (req'[p].pc = "done" /\ req'[p].err = AuthFailed)

C18_AbortLeavesSharedRefresh == [][C18_Step]_vars

\* C18 witness: the refresh succeeded after the timer of one of its two
\* waiters had fired; that waiter was rejected and the other one is resent.
C18_Witness ==
  \E o \in settled, p \in Reqs :
    /\ o.aborted
    /\ req[o.r].err = AuthFailed
    /\ p # o.r
    /\ req[p].pc = "resent"
    /\ Len(refreshOps) = 1
    /\ refreshOps[1].state = "ok"

\* C19: the durable entries equal the in-memory pair, so that loading the
\* store from them yields the pair held in memory.
C19_StorageEqualsMemory ==
  /\ localStorage.auth_token = token
  /\ localStorage.refresh_token = refreshToken
  /\ loadTokensFromStorage(localStorage) = Store

\* C20: a login request is made with skipAuth, none of its sends carries an
\* Authorization value, and it never waits for a token refresh.
C20_LoginSkipsAuth ==
  \A r \in Reqs :
    (req[r].kind = "login" /\ Active(req[r])) =>
      /\ req[r].skipAuth
      /\ Carried(r) = {}
      /\ req[r].pc # "awaitRefresh"

\* C21: once a token refresh has failed, the user of the AuthProvider
\* becomes null.
C21_RefreshFailureLogsOut == (~NoRefreshFailed) ~> (user = Null)

\* C22: the step in which AuthProvider.logout completes, its endpoint call
\* having succeeded or failed, leaves the in-memory access and refresh
\* tokens null, both durable entries removed and the user null.
C22_LogoutClearsEverything ==
  [][\A r \in Reqs :
       (Finishes(r) /\ req[r].kind = "AuthProvider.logout")
         => /\ token' = Null
            /\ refreshToken' = Null
            /\ localStorage' = EmptyStorage
            /\ user' = Null]_vars

\* C22 witness: a logout whose endpoint call failed has completed for a
\* logged-in user; store and user are empty.
C22_Witness ==
  \E o \in settled :
    /\ req[o.r].kind = "AuthProvider.logout"
    /\ req[o.r].result = "error"
    /\ req[o.r].logoutBefore = {}
    /\ loggedOut # {}
    /\ loginTokens # {}
    /\ token = Null /\ refreshToken = Null
    /\ localStorage = EmptyStorage
    /\ user = Null

\* C23: after the component has unmounted no step changes data, error or
\* isLoading, and none makes a fetcher call or arms a retry timer.
C23_UnmountedChangesNothing ==
  [][~mountedRef
       => /\ data' = data
          /\ error' = error
          /\ isLoading' = isLoading
          /\ Len(calls') = Len(calls)
          /\ timers' \subseteq timers
          /\ retryCountRef' = retryCountRef
          /\ lastFetchTimeRef' = lastFetchTimeRef]_vars

\* C23 witness: the fetch started by a retry timer was in flight at the
\* unmount and has completed since; isLoading is still set and data and
\* error are as the unmount left them.
C23_Witness ==
  /\ ~mountedRef
  /\ PendingCalls = {}
  /\ Len(calls) = 2
  /\ retryCountRef = 1
  /\ timers = {}
  /\ isLoading
  /\ data = Null
  /\ error = Null

\* C24: while the enabled option is false no step of the hook calls the
\* fetcher, whether it is the mount, a window focus, refetch() or anything
\* else, and a hook that has made no call holds its initial data.
C24_DisabledNeverFetches ==
  [][(~enabled /\ ~enabled')
       => /\ Len(calls') = Len(calls)
          /\ calls = <<>> => data' = Null]_vars

\* C25: the sleep before the k-th retry of a call (the one that follows
\* attempt k) lasts RetryDelay * 2^(k-1) milliseconds and never more than
\* RetryMaxDelay, for every k the call's retries setting allows.
C25_BackoffDelayCapped ==
  \A r \in Reqs :
    req[r].pc = "sleeping"
      => /\ req[r].attempt <= req[r].retries
         /\ req[r].slept = RetryDelay * 2 ^ (req[r].attempt - 1)
         /\ req[r].slept <= RetryMaxDelay

\* C26: the step in which a refresh settles, with a token or with a failure,
\* leaves isRefreshing false and refreshPromise null, and a 401 answered to a
\* call afterwards, while a refresh token is held and no refresh is pending,
\* starts a new refresh call.
C26_Step ==
  /\ (\E k \in PendingRefreshes : refreshOps'[k].state # "pending")
       => (~isRefreshing' /\ refreshPromise' = Null)
  /\ \A r \in Reqs :
       (/\ req[r].pc = "inflight" /\ ~req[r].skipAuth
        /\ refreshToken # Null
        /\ refreshOps # <<>> /\ PendingRefreshes = {}
        /\ Respond(r, "s401"))
         => /\ Len(refreshOps') = Len(refreshOps) + 1
            /\ refreshOps'[Len(refreshOps')].state = "pending"
            /\ isRefreshing' /\ refreshPromise' = Len(refreshOps')
            /\ req'[r].pc = "awaitRefresh"
            /\ req'[r].awaits = Len(refreshOps')

C26_SlotClearedAfterRefresh == [][C26_Step]_vars

\* a refresh has failed and a later 401 started the refresh now pending
C26_Witness ==
  /\ Len(refreshOps) = 2
  /\ refreshOps[1].state = "fail"
  /\ refreshOps[2].state = "pending"
  /\ isRefreshing /\ refreshPromise = 2

\* C27: when an attempt of a call with retries remaining ended in a timeout,
\* the attempt made after the sleep is sent to the server under a timeout
\* window of its own, one that has not run out yet.
C27_RetryAfterTimeoutIsSent ==
  [][\A r \in Reqs :
       (/\ req[r].pc = "sleeping"
        /\ req[r].aborted
        /\ req'[r].pc # "sleeping")
         => /\ req'[r].pc = "inflight"
            /\ req'[r].sends = req[r].sends + 1
            /\ ~req'[r].aborted]_vars

\* C28: the attempt a call makes after a backoff sleep carries the access
\* token the store holds at that moment, also when another call refreshed
\* the token during the sleep, and a retry that the server accepts with the
\* token of the store starts no refresh.
C28_RetryAttachesCurrentToken ==
  [][\A r \in Reqs :
       (req[r].pc = "sleeping" /\ req'[r].pc = "inflight")
         => req'[r].hdr = getAuthHeaders(token)]_vars

\* C29: one request() call waits for a token refresh, started by itself or
\* joined, at most once, whatever its retries setting and whatever the
\* server answers to its attempts and to its resend.
C29_OneRefreshPerCall ==
  [][\A r \in Reqs :
       (req[r].pc # "awaitRefresh" /\ req'[r].pc = "awaitRefresh")
         => /\ req[r].awaits = Null
            /\ req[r].resends = 0]_vars

\* a call with one retry was answered 503, then 401, then 401 on the resend
\* that followed the refresh: it has failed after three sends and the
\* refresh it started is the only one
C29_Witness ==
  \E o \in settled :
    /\ o.retries = 1 /\ o.sends = 3
    /\ req[o.r].pc = "done" /\ req[o.r].err = AuthFailed
    /\ Len(refreshOps) = 1 /\ refreshOps[1].state = "ok"

\* C30: once logout has emptied the token store, a token refresh that was
\* in flight when logout ran and now answers with a token leaves the access
\* token absent from memory and from durable storage.
C30_RefreshAfterLogoutWritesNothing ==
  [][(/\ loggedOut # {}
      /\ Store = [token |-> Null, refreshToken |-> Null, ls |-> EmptyStorage]
      /\ \E k \in PendingRefreshes : refreshOps'[k].state = "ok")
       => (token' = Null /\ localStorage'.auth_token = Null)]_vars

====
